---- MODULE Spec2Model ----
(***************************************************************************)
(* A model of sqlite_ddbvfs.py: a SQLite VFS whose database file lives in   *)
(* a DynamoDB-shaped table.  One path P is modelled.  The table holds, for  *)
(* P, the lock record LK/P, the blocks BL_<P>/N, the size counter FSIZE/P   *)
(* and the marker ACCESS/P.  Every single-item request to the table is      *)
(* atomic and strongly consistent, so an action of the model is one request *)
(* to the table together with the handle-local code around it.              *)
(*                                                                          *)
(* An item is modelled as a function from the names of the attributes it    *)
(* carries to their values; an item without attributes and a missing item   *)
(* are both the empty function.                                             *)
(***************************************************************************)
EXTENDS Integers, Sequences, FiniteSets, TLC

VARIABLES
    lk,          \* the item (LK, P): attributes level, owner, count
    attained,    \* attained[h]: the field _attained_log_level of handle h
    held,        \* ghost: the level handle h holds by the calls that returned
    pc,          \* pc[h]: "idle", or "upgrade" between the two requests of xLock
    tgt,         \* tgt[h]: the argument of the xLock call in flight
    last,        \* ghost: the call step taken last, with its outcome
    block_size,  \* the field _block_size of the VFS and of its handles
    blocks,      \* the items (BL_<P>, N): N -> [data, size]
    fsize,       \* the item (FSIZE, P): attribute size
    access,      \* whether the item (ACCESS, P) is stored
    lastf        \* ghost: the file call made last, with its arguments and result

lockvars == <<lk, attained, held, pc, tgt, last>>

filevars == <<block_size, blocks, fsize, access, lastf>>

vars == <<lk, attained, held, pc, tgt, last,
          block_size, blocks, fsize, access, lastf>>

(***************************************************************************)
(* Bounds.                                                                  *)
(***************************************************************************)
NumHandles == 3

Handles == 1..NumHandles      \* a handle is named by its client_id

(***************************************************************************)
(* The lock levels of the class DDBVFSFile.                                 *)
(***************************************************************************)
SQLITE_LOCK_NONE == 0
SQLITE_LOCK_SHARED == 1
SQLITE_LOCK_RESERVED == 2
SQLITE_LOCK_PENDING == 3
SQLITE_LOCK_EXCLUSIVE == 4

(***************************************************************************)
(* Items as attribute maps.                                                 *)
(***************************************************************************)
NoItem == [a \in {} |-> 0]

Has(item, a) == a \in DOMAIN item

SetAttrs(item, new) ==
    [a \in DOMAIN item \cup DOMAIN new |->
        IF a \in DOMAIN new THEN new[a] ELSE item[a]]

RemoveAttrs(item, names) == [a \in DOMAIN item \ names |-> item[a]]

(***************************************************************************)
(* The requests xLock sends for the item LK/P.  Each is a condition on the  *)
(* item as stored and the item a successful request leaves.                 *)
(***************************************************************************)
\* a condition that keeps readers out only at EXCLUSIVE
SharedConditionLoose(item) ==
    \/ ~Has(item, "level")
    \/ item["level"] # SQLITE_LOCK_EXCLUSIVE

\* xLock(SHARED): ConditionExpression
SharedCondition(item) ==
    \/ ~Has(item, "level")
    \/ item["level"] = SQLITE_LOCK_RESERVED

\* xLock(SHARED): SET count = if_not_exists(count, 0) + 1
SharedUpdate(item) ==
    SetAttrs(item, [count |-> (IF Has(item, "count") THEN item["count"] ELSE 0) + 1])

\* a first request that does not look at the owner
PendingConditionNone(item, cid) == TRUE

\* the first request of xLock(RESERVED or EXCLUSIVE): ConditionExpression
PendingCondition(item, cid) ==
    \/ ~Has(item, "owner")
    \/ item["owner"] = cid

\* a first request that claims RESERVED at once
PendingUpdateReserved(item, cid) ==
    SetAttrs(item, [level |-> SQLITE_LOCK_RESERVED, owner |-> cid])

\* the first request of xLock(RESERVED or EXCLUSIVE): SET level, owner
PendingUpdate(item, cid) ==
    SetAttrs(item, [level |-> SQLITE_LOCK_PENDING, owner |-> cid])

\* a second request that waits for the readers at RESERVED as well
FinalConditionDrained(item, cid, level) ==
    /\ Has(item, "owner") /\ item["owner"] = cid
    /\ Has(item, "count") /\ item["count"] = 1

\* the second request of xLock(RESERVED or EXCLUSIVE): ConditionExpression
FinalCondition(item, cid, level) ==
    IF level = SQLITE_LOCK_RESERVED
    THEN Has(item, "owner") /\ item["owner"] = cid
    ELSE /\ Has(item, "owner") /\ item["owner"] = cid
         /\ Has(item, "count") /\ item["count"] = 1

\* the second request of xLock(RESERVED or EXCLUSIVE): SET level, owner
FinalUpdate(item, cid, level) ==
    SetAttrs(item, [level |-> level, owner |-> cid])

(***************************************************************************)
(* The requests xUnlock sends for the item LK/P.                            *)
(***************************************************************************)
\* every conditional request of xUnlock: Attr('owner').eq(client_id)
OwnerCondition(item, cid) == Has(item, "owner") /\ item["owner"] = cid

\* xUnlock(RESERVED): put_item replaces the whole item
KeepReservedItem(item, cid, level) ==
    [level |-> level, owner |-> cid, count |-> 1]

\* a release that removes the level and leaves the owner
ReleaseLevelOnly(item) == RemoveAttrs(item, {"level"})

\* xUnlock(SHARED): REMOVE level, owner
ReleaseWriterUpdate(item) == RemoveAttrs(item, {"level", "owner"})

\* SET count = count - increment is rejected when the item has no count
CanDecrement(item) == Has(item, "count")

\* a release that forgets the writer's own share of count
ReleaseAllKeepCount(item) == RemoveAttrs(item, {"level", "owner"})

\* xUnlock(NONE) of a writer: SET count = count - 1 REMOVE level, owner
ReleaseAllUpdate(item) ==
    RemoveAttrs(SetAttrs(item, [count |-> item["count"] - 1]), {"level", "owner"})

\* xUnlock(NONE) of a reader: SET count = count - increment
DecrementUpdate(item, increment) ==
    SetAttrs(item, [count |-> item["count"] - increment])

(***************************************************************************)
(* The calls the database engine makes.  The engine is the only caller: it  *)
(* asks for SHARED, RESERVED or EXCLUSIVE, never for less than it holds,    *)
(* and asks for a writer level only while it holds SHARED or more (xLock's  *)
(* comment "if here we always at least own a pending lock" and its test     *)
(* count = 1 for "readers have drained" rest on that).  It unlocks to NONE, *)
(* SHARED or RESERVED, never to more than it holds.                         *)
(***************************************************************************)
LockTargets == {SQLITE_LOCK_SHARED, SQLITE_LOCK_RESERVED, SQLITE_LOCK_EXCLUSIVE}

UnlockTargets == {SQLITE_LOCK_NONE, SQLITE_LOCK_SHARED, SQLITE_LOCK_RESERVED}

EngineMayLock(h, level) ==
    /\ level \in LockTargets
    /\ level >= held[h]
    /\ held[h] = SQLITE_LOCK_NONE => level = SQLITE_LOCK_SHARED

EngineMayUnlock(h, level) ==
    /\ level \in UnlockTargets
    /\ level <= held[h]

Outcome(op, h, level, res) == [op |-> op, h |-> h, level |-> level, res |-> res]

(***************************************************************************)
(* xLock, up to and including its first request to the table.               *)
(***************************************************************************)
\* the second request of xLock and the code after it
xLockFinal(h, level, op) ==
    IF FinalCondition(lk, h, level)
    THEN /\ lk' = FinalUpdate(lk, h, level)
         /\ attained' = [attained EXCEPT ![h] = level]
         /\ held' = [held EXCEPT ![h] = level]
         /\ last' = Outcome(op, h, level, "ok")
    ELSE /\ last' = Outcome(op, h, level, "busy")
         /\ UNCHANGED <<lk, attained, held>>

\* an xLock that assigns the level it is about to ask for before the request
xLockAssignFirst(h, level) ==
    /\ pc[h] = "idle"
    /\ EngineMayLock(h, level)
    /\ IF level = attained[h]
       THEN /\ last' = Outcome("xLock", h, level, "ok")
            /\ held' = [held EXCEPT ![h] = level]
            /\ UNCHANGED <<lk, attained, pc, tgt>>
       ELSE IF level = SQLITE_LOCK_SHARED
       THEN /\ attained' = [attained EXCEPT ![h] = SQLITE_LOCK_SHARED]
            /\ IF SharedCondition(lk)
               THEN /\ lk' = SharedUpdate(lk)
                    /\ held' = [held EXCEPT ![h] = SQLITE_LOCK_SHARED]
                    /\ last' = Outcome("xLock", h, level, "ok")
               ELSE /\ last' = Outcome("xLock", h, level, "busy")
                    /\ UNCHANGED <<lk, held>>
            /\ UNCHANGED <<pc, tgt>>
       ELSE IF attained[h] # SQLITE_LOCK_PENDING
       THEN IF PendingCondition(lk, h)
            THEN /\ lk' = PendingUpdate(lk, h)
                 /\ attained' = [attained EXCEPT ![h] = SQLITE_LOCK_PENDING]
                 /\ held' = [held EXCEPT ![h] = SQLITE_LOCK_PENDING]
                 /\ pc' = [pc EXCEPT ![h] = "upgrade"]
                 /\ tgt' = [tgt EXCEPT ![h] = level]
                 /\ last' = Outcome("xLock", h, level, "pending")
            ELSE /\ last' = Outcome("xLock", h, level, "busy")
                 /\ attained' = [attained EXCEPT ![h] = SQLITE_LOCK_PENDING]
                 /\ UNCHANGED <<lk, held, pc, tgt>>
       ELSE /\ xLockFinal(h, level, "xLock")
            /\ UNCHANGED <<pc, tgt>>

xLock(h, level) ==
    /\ pc[h] = "idle"
    /\ EngineMayLock(h, level)
    /\ IF level = attained[h]
       THEN /\ last' = Outcome("xLock", h, level, "ok")
            /\ held' = [held EXCEPT ![h] = level]
            /\ UNCHANGED <<lk, attained, pc, tgt>>
       ELSE IF level = SQLITE_LOCK_SHARED
       THEN /\ IF SharedCondition(lk)
               THEN /\ lk' = SharedUpdate(lk)
                    /\ attained' = [attained EXCEPT ![h] = SQLITE_LOCK_SHARED]
                    /\ held' = [held EXCEPT ![h] = SQLITE_LOCK_SHARED]
                    /\ last' = Outcome("xLock", h, level, "ok")
               ELSE /\ last' = Outcome("xLock", h, level, "busy")
                    /\ UNCHANGED <<lk, attained, held>>
            /\ UNCHANGED <<pc, tgt>>
       ELSE IF attained[h] # SQLITE_LOCK_PENDING
       THEN IF PendingCondition(lk, h)
            THEN /\ lk' = PendingUpdate(lk, h)
                 /\ attained' = [attained EXCEPT ![h] = SQLITE_LOCK_PENDING]
                 /\ held' = [held EXCEPT ![h] = SQLITE_LOCK_PENDING]
                 /\ pc' = [pc EXCEPT ![h] = "upgrade"]
                 /\ tgt' = [tgt EXCEPT ![h] = level]
                 /\ last' = Outcome("xLock", h, level, "pending")
            ELSE /\ last' = Outcome("xLock", h, level, "busy")
                 /\ UNCHANGED <<lk, attained, held, pc, tgt>>
       ELSE /\ xLockFinal(h, level, "xLock")
            /\ UNCHANGED <<pc, tgt>>

(***************************************************************************)
(* xLock from its second request on, after the PENDING request succeeded.   *)
(***************************************************************************)
xLockUpgrade(h) ==
    /\ pc[h] = "upgrade"
    /\ xLockFinal(h, tgt[h], "xLockUpgrade")
    /\ pc' = [pc EXCEPT ![h] = "idle"]
    /\ tgt' = [tgt EXCEPT ![h] = SQLITE_LOCK_NONE]

(***************************************************************************)
(* xUnlock.  A rejected request raises: nothing is written and the handle   *)
(* keeps the level it had.                                                  *)
(***************************************************************************)
xUnlockFailed(h, level) ==
    /\ last' = Outcome("xUnlock", h, level, "error")
    /\ UNCHANGED <<lk, attained, held>>

xUnlock(h, level) ==
    /\ pc[h] = "idle"
    /\ EngineMayUnlock(h, level)
    /\ UNCHANGED <<pc, tgt>>
    /\ IF level = attained[h]
       THEN /\ last' = Outcome("xUnlock", h, level, "ok")
            /\ held' = [held EXCEPT ![h] = level]
            /\ UNCHANGED <<lk, attained>>
       ELSE IF level >= SQLITE_LOCK_RESERVED
       THEN IF OwnerCondition(lk, h)
            THEN /\ lk' = KeepReservedItem(lk, h, level)
                 /\ attained' = [attained EXCEPT ![h] = level]
                 /\ held' = [held EXCEPT ![h] = level]
                 /\ last' = Outcome("xUnlock", h, level, "ok")
            ELSE xUnlockFailed(h, level)
       ELSE IF level = SQLITE_LOCK_SHARED
       THEN IF OwnerCondition(lk, h)
            THEN /\ lk' = ReleaseWriterUpdate(lk)
                 /\ attained' = [attained EXCEPT ![h] = level]
                 /\ held' = [held EXCEPT ![h] = level]
                 /\ last' = Outcome("xUnlock", h, level, "ok")
            ELSE xUnlockFailed(h, level)
       ELSE IF attained[h] > SQLITE_LOCK_SHARED
       THEN IF OwnerCondition(lk, h) /\ CanDecrement(lk)
            THEN /\ lk' = ReleaseAllUpdate(lk)
                 /\ held' = [held EXCEPT ![h] = level]
                 /\ last' = Outcome("xUnlock", h, level, "ok")
                 /\ UNCHANGED attained     \* the field is not assigned here
            ELSE xUnlockFailed(h, level)
       ELSE IF CanDecrement(lk)
            THEN /\ lk' = DecrementUpdate(lk, IF attained[h] > 0 THEN 1 ELSE 0)
                 /\ attained' = [attained EXCEPT ![h] = level]
                 /\ held' = [held EXCEPT ![h] = level]
                 /\ last' = Outcome("xUnlock", h, level, "ok")
            ELSE xUnlockFailed(h, level)

(***************************************************************************)
(* xCheckReservedLock.                                                      *)
(***************************************************************************)
\* get_item with AttributesToGet: the item cut down to the attributes asked
Projection(item, names) == [a \in DOMAIN item \cap names |-> item[a]]

\* _get_lock_state: the level read from LK/P
_get_lock_state(item) ==
    LET response == Projection(item, {"level", "owner"})
    IN  IF Has(response, "level") THEN response["level"]
        ELSE IF Has(response, "count") /\ response["count"] > 0
             THEN SQLITE_LOCK_SHARED
             ELSE SQLITE_LOCK_NONE

\* a test that leaves RESERVED out
CheckReservedAbove(item) == _get_lock_state(item) > SQLITE_LOCK_RESERVED

\* xCheckReservedLock: the value returned
CheckReserved(item) == _get_lock_state(item) >= SQLITE_LOCK_RESERVED

xCheckReservedLock(h) ==
    /\ pc[h] = "idle"
    /\ last' = Outcome("xCheckReservedLock", h, SQLITE_LOCK_NONE,
                       IF CheckReserved(lk) THEN "true" ELSE "false")
    /\ UNCHANGED <<lk, attained, held, pc, tgt>>

(***************************************************************************)
(* The lock protocol: any number of calls by the handles, interleaved at    *)
(* the requests to the table.                                               *)
(***************************************************************************)
InitLock ==
    /\ lk = NoItem
    /\ attained = [h \in Handles |-> SQLITE_LOCK_NONE]
    /\ held = [h \in Handles |-> SQLITE_LOCK_NONE]
    /\ pc = [h \in Handles |-> "idle"]
    /\ tgt = [h \in Handles |-> SQLITE_LOCK_NONE]
    /\ last = Outcome("none", 0, 0, "none")

(***************************************************************************)
(* The block-mapped file.  Bytes are 0 and 1, 0 being the byte the code     *)
(* pads with.  The lock-page offset is scaled down from 1073741824 so that  *)
(* a file can reach it within the bounds; the block sizes lie below, at and *)
(* above the longest data of one xWrite.                                    *)
(***************************************************************************)
MaxFile == 6                \* no xWrite reaches beyond this offset

lock_page_offset == 2

BlockSizes == {2, 3}

Bytes == {0, 1}

Lengths == {0, 1, 2}

DataSet == UNION {[1..n -> Bytes] : n \in Lengths}

Min(a, b) == IF a <= b THEN a ELSE b

Max(a, b) == IF a >= b THEN a ELSE b

\* bytes(n): n zero bytes
Zeros(n) == [i \in 1..n |-> 0]

\* s[a:b] of Python, for 0 <= a and 0 <= b
Slice(s, a, b) == SubSeq(s, a + 1, Min(b, Len(s)))

\* s[a:] of Python
SliceFrom(s, a) == SubSeq(s, a + 1, Len(s))

\* _blocks(offset, amount): the triples <<block, start, consume>>
RECURSIVE _blocks(_, _, _)
_blocks(B, offset, amount) ==
    IF amount > 0
    THEN LET block == offset \div B
             start == offset % B
             consume == Min(B - start, amount)
         IN  <<<<block, start, consume>>>> \o _blocks(B, offset + consume, amount - consume)
    ELSE <<>>

\* _block_get_bytes(block)
_block_get_bytes(bl, block) ==
    IF block \in DOMAIN bl THEN bl[block]["data"] ELSE <<>>

\* the size put_item reports for the item it replaced, taken as 0
PutDeltaNoOld(bl, block, bytes) == Len(bytes)

\* _block_put_bytes(block, bytes): the value it returns
PutDelta(bl, block, bytes) ==
    IF block \in DOMAIN bl THEN Len(bytes) - bl[block]["size"] ELSE Len(bytes)

\* a put that replaces the data and keeps the size attribute of the old item
BlockPutKeepSize(st, block, bytes) ==
    [bl |-> [n \in DOMAIN st.bl \cup {block} |->
                IF n = block
                THEN [data |-> bytes,
                      size |-> IF block \in DOMAIN st.bl
                               THEN st.bl[block]["size"] ELSE Len(bytes)]
                ELSE st.bl[n]],
     dsize |-> st.dsize + PutDelta(st.bl, block, bytes)]

\* _block_put_bytes(block, bytes): the table it leaves, and dsize grown
\* by the value it returns; st is [bl, dsize]
_block_put_bytes(st, block, bytes) ==
    [bl |-> [n \in DOMAIN st.bl \cup {block} |->
                IF n = block THEN [data |-> bytes, size |-> Len(bytes)]
                ELSE st.bl[n]],
     dsize |-> st.dsize + PutDelta(st.bl, block, bytes)]

\* _block_delete(block)
_block_delete(st, block) ==
    [bl |-> [n \in DOMAIN st.bl \ {block} |-> st.bl[n]],
     dsize |-> st.dsize - st.bl[block]["size"]]

\* _update_total_size(dsize): ADD size :dsize, which creates the item
_update_total_size(item, dsize) ==
    SetAttrs(item, [size |-> (IF Has(item, "size") THEN item["size"] ELSE 0) + dsize])

\* _get_total_size()
_get_total_size(item) == IF Has(item, "size") THEN item["size"] ELSE 0

\* xRead(amount, offset): the slices of the blocks, joined
RECURSIVE JoinRead(_, _)
JoinRead(bl, triples) ==
    IF triples = <<>> THEN <<>>
    ELSE LET t == Head(triples)
         IN  Slice(_block_get_bytes(bl, t[1]), t[2], t[2] + t[3])
                 \o JoinRead(bl, Tail(triples))

\* a read that takes each block from start to its end
ReadBytesToEnd(B, bl, amount, offset) ==
    JoinRead(bl, [i \in DOMAIN _blocks(B, offset, amount) |->
                    <<_blocks(B, offset, amount)[i][1],
                      _blocks(B, offset, amount)[i][2], B>>])

ReadBytes(B, bl, amount, offset) == JoinRead(bl, _blocks(B, offset, amount))

\* an xWrite without the loop before the lock page
PadNothing(B, st, block, lock_page_block) == st

\* xWrite: the loop over range(data_first_block - 1, lock_page_block - 1, -1)
RECURSIVE PadBefore(_, _, _, _)
PadBefore(B, st, block, lock_page_block) ==
    IF block < lock_page_block THEN st
    ELSE LET original_block_bytes == _block_get_bytes(st.bl, block)
         IN  IF Len(original_block_bytes) = B THEN st
             ELSE PadBefore(B,
                     _block_put_bytes(st, block,
                         original_block_bytes \o Zeros(B - Len(original_block_bytes))),
                     block - 1, lock_page_block)

\* a splice that forgets the bytes before start
SpliceNoPrefix(original_block_bytes, piece, start, write) ==
    piece \o SliceFrom(original_block_bytes, start + write)

\* xWrite: the new bytes spliced into the block read back
Splice(original_block_bytes, piece, start, write) ==
    Slice(original_block_bytes, 0, start) \o piece
        \o SliceFrom(original_block_bytes, start + write)

\* xWrite: the loop over _blocks(offset, len(data))
RECURSIVE WriteBlocks(_, _, _, _, _)
WriteBlocks(B, st, data, data_offset, triples) ==
    IF triples = <<>> THEN st
    ELSE LET block == Head(triples)[1]
             start == Head(triples)[2]
             write == Head(triples)[3]
             piece == Slice(data, data_offset, data_offset + write)
             got == _block_get_bytes(st.bl, block)
             original_block_bytes == got \o Zeros(Max(start - Len(got), 0))
             data_to_write ==
                 IF start # 0 \/ Len(piece) # B
                 THEN Splice(original_block_bytes, piece, start, write)
                 ELSE piece
         IN  WriteBlocks(B, _block_put_bytes(st, block, data_to_write),
                         data, data_offset + write, Tail(triples))

\* xWrite(data, offset), up to the call of _update_total_size
WriteResult(B, bl, data, offset) ==
    LET st0 == [bl |-> bl, dsize |-> 0]
        page_size == Len(data)
        st1 == IF offset = lock_page_offset + page_size
               THEN PadBefore(B, st0, (offset \div B) - 1, lock_page_offset \div B)
               ELSE st0
    IN  WriteBlocks(B, st1, data, 0, _blocks(B, offset, Len(data)))

\* the block numbers of a Query on BL_<P>, ascending
RECURSIVE Ascending(_)
Ascending(S) ==
    IF S = {} THEN <<>>
    ELSE LET m == CHOOSE x \in S : \A y \in S : x <= y
         IN  <<m>> \o Ascending(S \ {m})

\* a to_keep that counts the block itself as already passed
ToKeepShort(size, total, newsize) == Max(newsize - total, 0)

\* xTruncate: to_keep, total being the sizes up to and including this block
ToKeep(size, total, newsize) == Max(size - total + newsize, 0)

\* xTruncate: the loop over the items of the Query
RECURSIVE TruncateBlocks(_, _, _, _)
TruncateBlocks(st, order, total, newsize) ==
    IF order = <<>> THEN st
    ELSE LET n == Head(order)
             size == st.bl[n]["size"]
             total2 == total + size
             to_keep == ToKeep(size, total2, newsize)
             st2 == IF to_keep = 0 THEN _block_delete(st, n)
                    ELSE IF to_keep < size
                    THEN _block_put_bytes(st, n,
                             Slice(_block_get_bytes(st.bl, n), 0, to_keep))
                    ELSE st
         IN  TruncateBlocks(st2, Tail(order), total2, newsize)

\* xTruncate(newsize), up to the call of _update_total_size
TruncateResult(bl, newsize) ==
    TruncateBlocks([bl |-> bl, dsize |-> 0], Ascending(DOMAIN bl), 0, newsize)

\* serialize_iter: the data of the blocks in ascending order, joined
RECURSIVE JoinData(_, _)
JoinData(bl, order) ==
    IF order = <<>> THEN <<>>
    ELSE bl[Head(order)]["data"] \o JoinData(bl, Tail(order))

Serialized(bl) == JoinData(bl, Ascending(DOMAIN bl))

\* the number of bytes stored in the blocks
RECURSIVE SumSizes(_, _)
SumSizes(bl, order) ==
    IF order = <<>> THEN 0
    ELSE Len(bl[Head(order)]["data"]) + SumSizes(bl, Tail(order))

StoredBytes(bl) == SumSizes(bl, Ascending(DOMAIN bl))

(***************************************************************************)
(* The conventional file the calls are compared with: a write beyond the    *)
(* end fills the gap with zero bytes, a truncate cuts the file and never    *)
(* grows it.                                                                *)
(***************************************************************************)
RefWrite(f, data, offset) ==
    IF data = <<>> THEN f
    ELSE LET base == f \o Zeros(Max(offset - Len(f), 0))
         IN  Slice(base, 0, offset) \o data \o SliceFrom(base, offset + Len(data))

RefTruncate(f, newsize) == Slice(f, 0, newsize)

RefRead(f, amount, offset) == Slice(f, offset, offset + amount)

\* a write that leaves no unwritten gap: it starts at or before the end of
\* the file, or it is the write just past the lock page of a file that
\* reaches the lock page
Contiguous(f, data, offset) ==
    \/ offset <= Len(f)
    \/ data = <<>>
    \/ offset = lock_page_offset + Len(data) /\ Len(f) >= lock_page_offset

FileCall(op, data, offset, n, bytes) ==
    [op |-> op, data |-> data, offset |-> offset, n |-> n, bytes |-> bytes]

(***************************************************************************)
(* The file calls.                                                          *)
(***************************************************************************)
\* DDBVFS.xOpen: DDBVFSFile.__init__ puts the marker
xOpen ==
    /\ access' = TRUE
    /\ UNCHANGED <<block_size, blocks, fsize, lastf>>

xWrite(data, offset) ==
    /\ access
    /\ LET st == WriteResult(block_size, blocks, data, offset)
       IN  /\ blocks' = st.bl
           /\ fsize' = _update_total_size(fsize, st.dsize)
    /\ lastf' = FileCall("xWrite", data, offset, 0, <<>>)
    /\ UNCHANGED <<block_size, access>>

xRead(amount, offset) ==
    /\ access
    /\ lastf' = FileCall("xRead", <<>>, 0, 0,
                         ReadBytes(block_size, blocks, amount, offset))
    /\ UNCHANGED <<block_size, blocks, fsize, access>>

xTruncate(newsize) ==
    /\ access
    /\ LET st == TruncateResult(blocks, newsize)
       IN  /\ blocks' = st.bl
           /\ fsize' = _update_total_size(fsize, st.dsize)
    /\ lastf' = FileCall("xTruncate", <<>>, 0, newsize, <<>>)
    /\ UNCHANGED <<block_size, access>>

xFileSize ==
    /\ access
    /\ lastf' = FileCall("xFileSize", <<>>, 0, _get_total_size(fsize), <<>>)
    /\ UNCHANGED <<block_size, blocks, fsize, access>>

InitFile ==
    /\ block_size \in BlockSizes
    /\ blocks = [n \in {} |-> 0]
    /\ fsize = NoItem
    /\ access = FALSE
    /\ lastf = FileCall("none", <<>>, 0, 0, <<>>)

Open == xOpen /\ UNCHANGED lockvars

Write ==
    /\ \E data \in DataSet : \E offset \in 0..(MaxFile - Len(data)) :
          xWrite(data, offset)
    /\ UNCHANGED lockvars

Read ==
    /\ \E amount \in Lengths : \E offset \in 0..MaxFile : xRead(amount, offset)
    /\ UNCHANGED lockvars

Truncate ==
    /\ \E newsize \in 0..(MaxFile + 1) : xTruncate(newsize)
    /\ UNCHANGED lockvars

FileSize == xFileSize /\ UNCHANGED lockvars

NextFile == Open \/ Write \/ Read \/ Truncate \/ FileSize

(***************************************************************************)
(* xDelete and xAccess.  A Query returns at most PageSize items and a       *)
(* LastEvaluatedKey when more are left.  FSIZE/P is never reset, so the     *)
(* model stops deleting once the counter has passed MaxFile.                *)
(***************************************************************************)
PageSize == 2

SQLITE_ACCESS_EXISTS == 0

AccessFlags == {SQLITE_ACCESS_EXISTS, 1, 2}

\* the items of one Query on BL_<P>: the first PageSize keys above lek
QueryPage(bl, lek) ==
    LET left == {n \in DOMAIN bl : n > lek}
        order == Ascending(left)
    IN  [Items |-> SubSeq(order, 1, Min(PageSize, Len(order))),
         more |-> Len(order) > PageSize]

\* a loop that does not follow LastEvaluatedKey
DeleteFirstPage(bl, lek, pages) ==
    LET response == QueryPage(bl, lek)
        Items == {response.Items[i] : i \in DOMAIN response.Items}
    IN  [bl |-> [n \in DOMAIN bl \ Items |-> bl[n]], pages |-> pages + 1]

\* xDelete: the loop over the pages of the Query, deleting every item
RECURSIVE DeletePages(_, _, _)
DeletePages(bl, lek, pages) ==
    LET response == QueryPage(bl, lek)
        Items == {response.Items[i] : i \in DOMAIN response.Items}
        rest == [n \in DOMAIN bl \ Items |-> bl[n]]
    IN  IF response.more
        THEN DeletePages(rest, response.Items[Len(response.Items)], pages + 1)
        ELSE [bl |-> rest, pages |-> pages + 1]

\* xAccess: the value returned, marker telling whether ACCESS/P is stored
AccessResult(marker, flags) ==
    \/ flags = SQLITE_ACCESS_EXISTS /\ marker
    \/ flags # SQLITE_ACCESS_EXISTS

\* lastf.n is the number of pages the Query took
xDelete ==
    /\ _get_total_size(fsize) <= MaxFile
    /\ LET st == DeletePages(blocks, -1, 0)
       IN  /\ blocks' = st.bl
           /\ lastf' = FileCall("xDelete", <<>>, 0, st.pages, <<>>)
    /\ access' = FALSE
    /\ UNCHANGED <<block_size, fsize>>

\* lastf.n is flags, lastf.bytes is <<1>> for true and <<0>> for false
xAccess(flags) ==
    /\ lastf' = FileCall("xAccess", <<>>, 0, flags,
                         IF AccessResult(access, flags) THEN <<1>> ELSE <<0>>)
    /\ UNCHANGED <<block_size, blocks, fsize, access>>

Delete == xDelete /\ UNCHANGED lockvars

Access == (\E flags \in AccessFlags : xAccess(flags)) /\ UNCHANGED lockvars

\* xDelete and the counter do not look at the bytes: every write here is of
\* bytes 1
WriteOnes ==
    /\ \E n \in Lengths : \E offset \in 0..(MaxFile - n) :
          xWrite([i \in 1..n |-> 1], offset)
    /\ UNCHANGED lockvars

NextDelete == Open \/ WriteOnes \/ Truncate \/ FileSize \/ Delete \/ Access

(***************************************************************************)
(* serialize_iter and deserialize_iter.  The source of deserialize_iter is  *)
(* a sequence of at most MaxChunks chunks, empty chunks among them.         *)
(***************************************************************************)
MaxChunks == 2

Chunks == {<<>>, <<1>>, <<0, 1>>}

Sources == UNION {[1..k -> Chunks] : k \in 0..MaxChunks}

RECURSIVE Flatten(_)
Flatten(chunks) ==
    IF chunks = <<>> THEN <<>> ELSE Head(chunks) \o Flatten(Tail(chunks))

\* a loop that stops after the first page of the Query
SerializeFirstPage(bl, lek) ==
    LET response == QueryPage(bl, lek)
    IN  [i \in DOMAIN response.Items |-> bl[response.Items[i]]["data"]]

\* serialize_iter: the chunks yielded, page after page
RECURSIVE serialize_iter(_, _)
serialize_iter(bl, lek) ==
    LET response == QueryPage(bl, lek)
        yielded == [i \in DOMAIN response.Items |-> bl[response.Items[i]]["data"]]
    IN  IF response.more
        THEN yielded \o serialize_iter(bl, response.Items[Len(response.Items)])
        ELSE yielded

\* deserialize_iter.up_to_iter(num), joined: rd is the reader's chunk, offset
\* and the chunks not yet taken from the source
RECURSIVE up_to_iter(_, _, _)
up_to_iter(rd, num, out) ==
    IF num = 0 THEN [rd |-> rd, out |-> out]
    ELSE IF rd.offset = Len(rd.chunk) /\ rd.it = <<>>
    THEN [rd |-> rd, out |-> out]
    ELSE LET rd1 == IF rd.offset = Len(rd.chunk)
                    THEN [chunk |-> Head(rd.it), offset |-> 0, it |-> Tail(rd.it)]
                    ELSE rd
             to_yield == Min(num, Len(rd1.chunk) - rd1.offset)
             offset == rd1.offset + to_yield
         IN  up_to_iter([rd1 EXCEPT !.offset = offset], num - to_yield,
                        out \o Slice(rd1.chunk, offset - to_yield, offset))

\* deserialize_iter.block_bytes_iter: the blocks of block_size bytes
RECURSIVE block_bytes_iter(_, _)
block_bytes_iter(B, rd) ==
    LET got == up_to_iter(rd, B, <<>>)
    IN  IF got.out = <<>> THEN <<>>
        ELSE <<got.out>> \o block_bytes_iter(B, got.rd)

\* deserialize_iter: the put_item of every block, then of FSIZE
DeserializeResult(B, bl, bytes_iter) ==
    LET new == block_bytes_iter(B, [chunk |-> <<>>, offset |-> 0, it |-> bytes_iter])
        put == {i - 1 : i \in DOMAIN new}
    IN  [bl |-> [n \in DOMAIN bl \cup put |->
                    IF n \in put
                    THEN [data |-> new[n + 1], size |-> Len(new[n + 1])]
                    ELSE bl[n]],
         total |-> Len(Flatten(new))]

\* lastf.data is the source, joined
deserialize_iter(bytes_iter) ==
    /\ LET st == DeserializeResult(block_size, blocks, bytes_iter)
       IN  /\ blocks' = st.bl
           /\ fsize' = [size |-> st.total]
    /\ lastf' = FileCall("deserialize_iter", Flatten(bytes_iter), 0, 0, <<>>)
    /\ UNCHANGED <<block_size, access>>

\* lastf.n is the number of chunks yielded, lastf.bytes the chunks, joined
xSerialize ==
    /\ LET chunks == serialize_iter(blocks, -1)
       IN  lastf' = FileCall("serialize_iter", <<>>, 0, Len(chunks), Flatten(chunks))
    /\ UNCHANGED <<block_size, blocks, fsize, access>>

Deserialize ==
    /\ \E bytes_iter \in Sources : deserialize_iter(bytes_iter)
    /\ UNCHANGED lockvars

Serialize == xSerialize /\ UNCHANGED lockvars

NextStream == Open \/ WriteOnes \/ Deserialize \/ Serialize

Init == InitLock /\ InitFile

Lock ==
    /\ \E h \in Handles : \E level \in LockTargets : xLock(h, level)
    /\ UNCHANGED filevars

Upgrade ==
    /\ \E h \in Handles : xLockUpgrade(h)
    /\ UNCHANGED filevars

Unlock ==
    /\ \E h \in Handles : \E level \in UnlockTargets : xUnlock(h, level)
    /\ UNCHANGED filevars

CheckReservedLock ==
    /\ \E h \in Handles : xCheckReservedLock(h)
    /\ UNCHANGED filevars

Next == Lock \/ Upgrade \/ Unlock \/ CheckReservedLock

Spec == Init /\ [][Next]_vars

\* the file calls on P, one at a time
SpecFile == Init /\ [][NextFile]_vars

\* the file calls with xDelete and xAccess among them
SpecDelete == Init /\ [][NextDelete]_vars

\* the file calls with serialize_iter and deserialize_iter among them
SpecStream == Init /\ [][NextStream]_vars

\* xTruncate to a size in the lower half of the files
TruncateLow ==
    /\ \E newsize \in 0..(MaxFile \div 2) : xTruncate(newsize)
    /\ UNCHANGED lockvars

\* every operation that stores blocks, in any order
NextBlocks == Open \/ WriteOnes \/ TruncateLow \/ Deserialize

SpecBlocks == Init /\ [][NextBlocks]_vars

(***************************************************************************)
(* The engine's own use of a file: pages written at or before the end of    *)
(* the file, and the page after the lock page written when the file ends    *)
(* at the lock page.  The block size is below, equal to or above the page.  *)
(***************************************************************************)
PageBlockSizes == {1, 2, 3}

InitPage ==
    /\ InitLock
    /\ block_size \in PageBlockSizes
    /\ blocks = [n \in {} |-> 0]
    /\ fsize = NoItem
    /\ access = FALSE
    /\ lastf = FileCall("none", <<>>, 0, 0, <<>>)

WriteContiguous ==
    /\ \E data \in DataSet : \E offset \in 0.._get_total_size(fsize) :
          /\ offset + Len(data) <= MaxFile
          /\ xWrite(data, offset)
    /\ UNCHANGED lockvars

WriteAcross ==
    /\ _get_total_size(fsize) = lock_page_offset
    /\ \E data \in DataSet :
          /\ lock_page_offset + 2 * Len(data) <= MaxFile
          /\ xWrite(data, lock_page_offset + Len(data))
    /\ UNCHANGED lockvars

NextPage ==
    Open \/ WriteContiguous \/ WriteAcross \/ Read \/ Truncate \/ FileSize

SpecPage == InitPage /\ [][NextPage]_vars

(***************************************************************************)
(* The calls that return without a request that writes.                     *)
(***************************************************************************)
\* an xClose that gives back the handle's share of the count
xCloseReleases(h) ==
    /\ pc[h] = "idle"
    /\ last' = Outcome("xClose", h, SQLITE_LOCK_NONE, "none")
    /\ lk' = IF attained[h] > SQLITE_LOCK_NONE /\ CanDecrement(lk)
             THEN DecrementUpdate(lk, 1) ELSE lk
    /\ UNCHANGED <<attained, held, pc, tgt>>

\* xClose: pass
xClose(h) ==
    /\ pc[h] = "idle"
    /\ last' = Outcome("xClose", h, SQLITE_LOCK_NONE, "none")
    /\ UNCHANGED <<lk, attained, held, pc, tgt>>

\* xSync: return True
xSync(h) ==
    /\ pc[h] = "idle"
    /\ last' = Outcome("xSync", h, SQLITE_LOCK_NONE, "true")
    /\ UNCHANGED <<lk, attained, held, pc, tgt>>

\* xFileControl: return False
xFileControl(h) ==
    /\ pc[h] = "idle"
    /\ last' = Outcome("xFileControl", h, SQLITE_LOCK_NONE, "false")
    /\ UNCHANGED <<lk, attained, held, pc, tgt>>

\* xSectorSize: return 0
xSectorSize(h) ==
    /\ pc[h] = "idle"
    /\ last' = Outcome("xSectorSize", h, SQLITE_LOCK_NONE, "0")
    /\ UNCHANGED <<lk, attained, held, pc, tgt>>

\* xFullPathname: return filename
xFullPathname ==
    /\ lastf' = FileCall("xFullPathname", <<>>, 0, 0, <<>>)
    /\ UNCHANGED <<block_size, blocks, fsize, access>>

Close == (\E h \in Handles : xClose(h)) /\ UNCHANGED filevars

Sync == (\E h \in Handles : xSync(h)) /\ UNCHANGED filevars

FileControl == (\E h \in Handles : xFileControl(h)) /\ UNCHANGED filevars

SectorSize == (\E h \in Handles : xSectorSize(h)) /\ UNCHANGED filevars

FullPathname == xFullPathname /\ UNCHANGED lockvars

\* No call works on both the item LK/P and the items of the file, so the
\* calls on the lock and the calls on the file are explored apart, each
\* from the empty table.
FileUntouched == lastf.op = "none" /\ ~access

LockUntouched == last.op = "none"

NextFrame ==
    \/ FileUntouched /\ Lock
    \/ FileUntouched /\ Upgrade
    \/ FileUntouched /\ Unlock
    \/ FileUntouched /\ CheckReservedLock
    \/ FileUntouched /\ Close
    \/ FileUntouched /\ Sync
    \/ FileUntouched /\ FileControl
    \/ FileUntouched /\ SectorSize
    \/ LockUntouched /\ Open
    \/ LockUntouched /\ Deserialize
    \/ LockUntouched /\ Read
    \/ LockUntouched /\ FileSize
    \/ LockUntouched /\ Access
    \/ LockUntouched /\ Serialize
    \/ LockUntouched /\ FullPathname

SpecFrame == Init /\ [][NextFrame]_vars

(***************************************************************************)
(* The same protocol under the scheduling the liveness claim supposes: a    *)
(* handle left at PENDING keeps retrying xLock(EXCLUSIVE) and finishes the  *)
(* call it is in, and a handle that holds SHARED eventually calls           *)
(* xUnlock(NONE).                                                           *)
(***************************************************************************)
RetryExclusive(h) ==
    /\ held[h] = SQLITE_LOCK_PENDING
    /\ xLock(h, SQLITE_LOCK_EXCLUSIVE) \/ xLockUpgrade(h)
    /\ UNCHANGED filevars

ReaderLeaves(h) ==
    /\ held[h] = SQLITE_LOCK_SHARED
    /\ xUnlock(h, SQLITE_LOCK_NONE)
    /\ UNCHANGED filevars

SpecLive ==
    /\ Init
    /\ [][Next]_vars
    /\ \A h \in Handles : WF_vars(RetryExclusive(h))
    /\ \A h \in Handles : WF_vars(ReaderLeaves(h))

(***************************************************************************)
(* Who holds what, by the calls that have returned.                         *)
(***************************************************************************)
Writers == {h \in Handles : held[h] >= SQLITE_LOCK_RESERVED}

Holders == {h \in Handles : held[h] >= SQLITE_LOCK_SHARED}

Count(item) == IF Has(item, "count") THEN item["count"] ELSE 0

LevelIs(item, level) == Has(item, "level") /\ item["level"] = level

\* C1: at most one handle at a time holds a writer claim (RESERVED, PENDING
\* or EXCLUSIVE), and a handle that asks for a writer level while another
\* handle holds the writer claim receives Busy and changes nothing.
C1_OneWriter ==
    [][ /\ Cardinality(Writers') <= 1
        /\ \A h \in Handles :
              ( /\ last'.op = "xLock" /\ last'.h = h
                /\ last'.level >= SQLITE_LOCK_RESERVED
                /\ \E g \in Handles \ {h} : held[g] >= SQLITE_LOCK_RESERVED )
              => (last'.res = "busy" /\ held'[h] = held[h] /\ lk' = lk) ]_vars

\* C1 witness: one handle is between the two requests of xLock(EXCLUSIVE)
\* and another handle's xLock(EXCLUSIVE) has just been answered Busy.
C1_Witness ==
    \E a \in Handles : \E b \in Handles \ {a} :
        /\ pc[a] = "upgrade" /\ tgt[a] = SQLITE_LOCK_EXCLUSIVE
        /\ last = Outcome("xLock", b, SQLITE_LOCK_EXCLUSIVE, "busy")

\* C2: while a handle holds EXCLUSIVE, no other handle holds SHARED or more.
C2_ExclusiveAlone ==
    \A h \in Handles :
        held[h] = SQLITE_LOCK_EXCLUSIVE => Holders = {h}

\* C3: in every state of the item LK/P, level = EXCLUSIVE implies count = 1.
C3_ExclusiveCountOne ==
    LevelIs(lk, SQLITE_LOCK_EXCLUSIVE) => (Has(lk, "count") /\ lk["count"] = 1)

\* C4: xLock(SHARED) by a handle at NONE succeeds exactly when the item has
\* no level or level = RESERVED; on success count grows by exactly 1 (from 0
\* when absent), nothing else of the item changes and attained becomes
\* SHARED; otherwise it raises Busy and changes nothing.  Between two states
\* with level = PENDING count does not increase.
C4_SharedJoin ==
    [][ /\ \A h \in Handles :
              ( /\ last'.op = "xLock" /\ last'.h = h
                /\ last'.level = SQLITE_LOCK_SHARED
                /\ held[h] = SQLITE_LOCK_NONE )
              => /\ (last'.res = "ok") <=>
                        (~Has(lk, "level") \/ LevelIs(lk, SQLITE_LOCK_RESERVED))
                 /\ last'.res = "ok" =>
                        /\ lk' = SetAttrs(lk, [count |-> Count(lk) + 1])
                        /\ attained'[h] = SQLITE_LOCK_SHARED
                 /\ last'.res # "ok" =>
                        /\ last'.res = "busy"
                        /\ lk' = lk /\ attained' = attained
        /\ (LevelIs(lk, SQLITE_LOCK_PENDING) /\ LevelIs(lk', SQLITE_LOCK_PENDING))
              => Count(lk') <= Count(lk) ]_vars

\* C4 witness: a reader has just joined beside a RESERVED writer and another
\* reader.
C4_Witness ==
    /\ last.op = "xLock" /\ last.level = SQLITE_LOCK_SHARED /\ last.res = "ok"
    /\ LevelIs(lk, SQLITE_LOCK_RESERVED)
    /\ Cardinality(Holders) >= 3

\* C5: once the calls have returned, count is the number of handles that
\* hold SHARED or more, and it is never negative.
C5_CountIsHolders ==
    /\ Count(lk) >= 0
    /\ (\A h \in Handles : pc[h] = "idle") => Count(lk) = Cardinality(Holders)

\* C6: a handle that owns the PENDING claim and keeps retrying
\* xLock(EXCLUSIVE) attains EXCLUSIVE once the other SHARED holders have
\* called xUnlock(NONE): it does not stay at PENDING for ever.
C6_PendingSucceeds ==
    \A h \in Handles :
        (held[h] = SQLITE_LOCK_PENDING) ~> (held[h] # SQLITE_LOCK_PENDING)

(***************************************************************************)
(* The file as a byte string.                                               *)
(***************************************************************************)
\* the blocks are 0..k-1, every one full but the last, none empty
WellFormed(B, bl) ==
    /\ \E k \in 0..(MaxFile + 1) : DOMAIN bl = 0..(k - 1)
    /\ \A n \in DOMAIN bl :
          /\ Len(bl[n]["data"]) >= 1
          /\ Len(bl[n]["data"]) <= B
          /\ (n + 1) \in DOMAIN bl => Len(bl[n]["data"]) = B

\* the conventional file that holds every stored byte at its offset and
\* zero bytes where nothing was written
PositionalLen(B, bl) ==
    IF DOMAIN bl = {} THEN 0
    ELSE LET top == CHOOSE n \in DOMAIN bl : \A m \in DOMAIN bl : m <= n
         IN  top * B + Len(bl[top]["data"])

Positional(B, bl) ==
    [i \in 1..PositionalLen(B, bl) |->
        LET n == (i - 1) \div B
            k == ((i - 1) % B) + 1
        IN  IF n \in DOMAIN bl /\ k <= Len(bl[n]["data"])
            THEN bl[n]["data"][k] ELSE 0]

\* the offset, in the serialized file, of the first byte of block n
StartOf(bl, n) == StoredBytes([m \in {x \in DOMAIN bl : x < n} |-> bl[m]])

\* C7: after every xWrite and xTruncate the FSIZE counter, which xFileSize
\* returns, is the sum of the lengths of the stored blocks.
C7_SizeIsSum == _get_total_size(fsize) = StoredBytes(blocks)

\* C7 witness: two bytes were written over the start of a file that held
\* three bytes, leaving three.
C7_Witness ==
    /\ lastf.op = "xWrite" /\ Len(lastf.data) = 2 /\ lastf.offset = 0
    /\ _get_total_size(fsize) = 3

\* C8: after xWrite(data, offset), an xRead of len(data) bytes at offset
\* returns data, whatever the path held before and whichever handle was
\* opened since.
C8_ReadBack ==
    lastf.op = "xWrite" =>
        ReadBytes(block_size, blocks, Len(lastf.data), lastf.offset) = lastf.data

\* C8 witness: the last write covered the end of one block and the start of
\* the next.
C8_Witness ==
    /\ lastf.op = "xWrite" /\ Len(lastf.data) = 2
    /\ block_size >= 2
    /\ lastf.offset % block_size = block_size - 1

\* what xRead and xFileSize return, against the conventional file f
SameAsFile(B, bl, total, f) ==
    /\ total = Len(f)
    /\ \A amount \in 0..(MaxFile + 1) : \A offset \in 0..(MaxFile + 1) :
          ReadBytes(B, bl, amount, offset) = RefRead(f, amount, offset)

\* C9: after any xWrite and xTruncate calls, xRead returns the
\* bytes of the conventional file that holds each written byte at its offset
\* and zero bytes in the gaps, and xFileSize returns its length.
C9_AnyOffsets ==
    SameAsFile(block_size, blocks, _get_total_size(fsize),
               Positional(block_size, blocks))

\* Where the equivalence does hold: a file stored as blocks 0..k-1, all full
\* but the last, reads and measures as the conventional file of its
\* serialized bytes; an xWrite
\* that starts at or before the end of that file, or just past the lock page
\* of a file that reaches the lock page, and an xTruncate to at most its
\* length, change it as they change the conventional file and leave it
\* stored the same way.
ContiguousIsConventional ==
    /\ [](WellFormed(block_size, blocks) =>
              SameAsFile(block_size, blocks, _get_total_size(fsize),
                         Serialized(blocks)))
    /\ [][
        /\ ( /\ WellFormed(block_size, blocks)
             /\ lastf'.op = "xWrite"
             /\ <<blocks', lastf'>> # <<blocks, lastf>>
             /\ Contiguous(Serialized(blocks), lastf'.data, lastf'.offset) )
           => /\ WellFormed(block_size, blocks')
              /\ Serialized(blocks') =
                     RefWrite(Serialized(blocks), lastf'.data, lastf'.offset)
        /\ ( /\ WellFormed(block_size, blocks)
             /\ lastf'.op = "xTruncate"
             /\ lastf'.n <= Len(Serialized(blocks)) )
           => /\ WellFormed(block_size, blocks')
              /\ Serialized(blocks') = RefTruncate(Serialized(blocks), lastf'.n)
      ]_vars

\* Such a file: the write just past the lock page of a file that ended at the
\* lock page has left a file of blocks 0..k-1 that reaches MaxFile.
ContiguousCrossing ==
    /\ lastf.op = "xWrite" /\ Len(lastf.data) = 2
    /\ lastf.offset = lock_page_offset + 2
    /\ WellFormed(block_size, blocks)
    /\ _get_total_size(fsize) = lock_page_offset + 4
    /\ SubSeq(Serialized(blocks), lock_page_offset + 1, lock_page_offset + 2) = <<0, 0>>

\* C10: xTruncate(newsize) with newsize at most the current size leaves the
\* first newsize bytes of the serialized content and xFileSize = newsize; a
\* block wholly beyond newsize is deleted, a block cut in the middle keeps
\* its leading bytes, a block before the cut is untouched; with newsize
\* above the current size the blocks and xFileSize stay as they were.
C10_Truncate ==
    [][ lastf'.op = "xTruncate" =>
          LET newsize == lastf'.n
              size == _get_total_size(fsize)
          IN  IF newsize <= size
              THEN /\ Serialized(blocks') = Slice(Serialized(blocks), 0, newsize)
                   /\ _get_total_size(fsize') = newsize
                   /\ DOMAIN blocks' \subseteq DOMAIN blocks
                   /\ \A n \in DOMAIN blocks :
                         LET from == StartOf(blocks, n)
                             data == blocks[n]["data"]
                         IN  IF from >= newsize
                             THEN n \notin DOMAIN blocks'
                             ELSE /\ n \in DOMAIN blocks'
                                  /\ blocks'[n]["data"] = Slice(data, 0, newsize - from)
                                  /\ blocks'[n]["size"] = Len(blocks'[n]["data"])
              ELSE /\ blocks' = blocks
                   /\ _get_total_size(fsize') = size ]_vars

\* C10 witness: a truncate has left a full block and a shortened one.
C10_Witness ==
    /\ lastf.op = "xTruncate"
    /\ _get_total_size(fsize) = lastf.n
    /\ lastf.n > block_size
    /\ lastf.n % block_size # 0
    /\ Len(Serialized(blocks)) = lastf.n

\* C11: after an xUnlock(target) that returns without error the handle's
\* attained level is target, whatever level it came from.
C11_UnlockSetsAttained ==
    (last.op = "xUnlock" /\ last.res = "ok") => attained[last.h] = last.level

\* C12: xCheckReservedLock returns true exactly when the item LK/P has a
\* level attribute of RESERVED, PENDING or EXCLUSIVE, whoever owns it, and
\* false when the item is absent or has only a count.
C12_CheckReserved ==
    last.op = "xCheckReservedLock" =>
        /\ (last.res = "true") <=>
              ( Has(lk, "level") /\
                lk["level"] \in {SQLITE_LOCK_RESERVED, SQLITE_LOCK_PENDING,
                                 SQLITE_LOCK_EXCLUSIVE} )
        /\ last.res \in {"true", "false"}
        /\ (lk = NoItem \/ DOMAIN lk = {"count"}) => last.res = "false"

\* C12 witness: a handle that holds nothing has been told of the RESERVED
\* claim of another handle.
C12_Witness ==
    /\ last.op = "xCheckReservedLock" /\ last.res = "true"
    /\ held[last.h] = SQLITE_LOCK_NONE
    /\ LevelIs(lk, SQLITE_LOCK_RESERVED)
    /\ lk["owner"] # last.h

\* C16: after an xUnlock(NONE) that returned, a second xUnlock(NONE) on the
\* same handle raises nothing and leaves the item LK/P as it is.
C16_UnlockNoneTwice ==
    [][ ( /\ last = Outcome("xUnlock", last.h, SQLITE_LOCK_NONE, "ok")
          /\ last'.op = "xUnlock" /\ last'.h = last.h
          /\ last'.level = SQLITE_LOCK_NONE )
        => (last'.res = "ok" /\ lk' = lk) ]_vars

\* C17: an xLock(EXCLUSIVE) that is answered Busy while the caller owns the
\* claim leaves the item at level = PENDING, owner = caller, count as it
\* was, and the handle at PENDING; an xLock(EXCLUSIVE) by a handle at
\* PENDING sends only the final request.
C17_BusyKeepsPending ==
    [][ \A h \in Handles :
          /\ ( /\ last'.op \in {"xLock", "xLockUpgrade"} /\ last'.h = h
               /\ last'.level = SQLITE_LOCK_EXCLUSIVE /\ last'.res = "busy"
               /\ OwnerCondition(lk, h) )
             => /\ lk' = lk
                /\ LevelIs(lk', SQLITE_LOCK_PENDING) /\ lk'["owner"] = h
                /\ Count(lk') # 1
                /\ attained'[h] = SQLITE_LOCK_PENDING
                /\ pc'[h] = "idle"
          /\ ( /\ last'.op = "xLock" /\ last'.h = h
               /\ last'.level = SQLITE_LOCK_EXCLUSIVE
               /\ attained[h] = SQLITE_LOCK_PENDING )
             => /\ last'.res \in {"ok", "busy"}
                /\ pc'[h] = "idle"
                /\ IF Count(lk) = 1
                   THEN /\ last'.res = "ok"
                        /\ lk' = SetAttrs(lk, [level |-> SQLITE_LOCK_EXCLUSIVE])
                   ELSE last'.res = "busy" /\ lk' = lk ]_vars

\* C17 witness: a handle left at PENDING by a Busy has retried and has been
\* answered Busy again, readers still being there.
C17_Witness ==
    /\ last.op = "xLock" /\ last.level = SQLITE_LOCK_EXCLUSIVE
    /\ last.res = "busy"
    /\ attained[last.h] = SQLITE_LOCK_PENDING
    /\ LevelIs(lk, SQLITE_LOCK_PENDING) /\ lk["owner"] = last.h
    /\ Count(lk) = 2

\* C18: whenever xUnlock(RESERVED) writes the item, count is already 1.
C18_ResetKeepsCount ==
    [][ ( /\ last'.op = "xUnlock" /\ last'.level = SQLITE_LOCK_RESERVED
          /\ last'.res = "ok"
          /\ attained[last'.h] # SQLITE_LOCK_RESERVED )
        => (Has(lk, "count") /\ lk["count"] = 1) ]_vars

\* C19: an xUnlock that returns changes the item by the row of the release
\* table: writer to SHARED removes level and owner and keeps count; writer
\* to NONE removes level and owner and takes 1 from count; SHARED to NONE
\* takes 1 from count and keeps level and owner; a writer row applies only
\* when the item's owner is the caller.
C19_ReleaseTable ==
    [][ \A h \in Handles :
          ( /\ last'.op = "xUnlock" /\ last'.h = h /\ last'.res = "ok"
            /\ held[h] # last'.level )
          => /\ ( held[h] >= SQLITE_LOCK_RESERVED /\
                  last'.level = SQLITE_LOCK_SHARED )
                => /\ OwnerCondition(lk, h)
                   /\ DOMAIN lk' = DOMAIN lk \ {"level", "owner"}
                   /\ Count(lk') = Count(lk)
             /\ ( held[h] >= SQLITE_LOCK_RESERVED /\
                  last'.level = SQLITE_LOCK_NONE )
                => /\ OwnerCondition(lk, h)
                   /\ DOMAIN lk' = DOMAIN lk \ {"level", "owner"}
                   /\ Count(lk') = Count(lk) - 1
             /\ ( held[h] = SQLITE_LOCK_SHARED /\
                  last'.level = SQLITE_LOCK_NONE )
                => /\ DOMAIN lk' = DOMAIN lk
                   /\ Count(lk') = Count(lk) - 1
                   /\ \A a \in DOMAIN lk \ {"count"} : lk'[a] = lk[a] ]_vars

\* C19 witness: a reader has left while another handle holds RESERVED.
C19_Witness ==
    /\ last = Outcome("xUnlock", last.h, SQLITE_LOCK_NONE, "ok")
    /\ LevelIs(lk, SQLITE_LOCK_RESERVED)
    /\ lk["owner"] # last.h
    /\ \E g \in Handles : held[g] = SQLITE_LOCK_RESERVED

\* C13: after xDelete(P) no block of P is left, however many pages the
\* Query took, and xAccess(P, EXISTS) is false; until then xAccess(P, EXISTS)
\* stays true once it is, and it is true whenever a handle has been used.
C13_DeleteRemovesAll ==
    /\ [](lastf.op = "xDelete" => DOMAIN blocks = {})
    /\ [](lastf.op \in {"xWrite", "xTruncate", "xFileSize"} =>
            AccessResult(access, SQLITE_ACCESS_EXISTS))
    /\ [][ /\ ( /\ lastf'.op = "xDelete"
                /\ <<lastf', blocks'>> # <<lastf, blocks>> )
             => ~AccessResult(access', SQLITE_ACCESS_EXISTS)
          /\ ( /\ AccessResult(access, SQLITE_ACCESS_EXISTS)
               /\ lastf'.op # "xDelete" )
             => AccessResult(access', SQLITE_ACCESS_EXISTS) ]_vars

\* C13 witness: an xDelete that needed two pages or more has returned.
C13_Witness ==
    /\ lastf.op = "xDelete" /\ lastf.n >= 2
    /\ DOMAIN blocks = {}
    /\ ~access

\* C20: after xDelete(P) and a new xOpen(P), xFileSize after a write is the
\* sum of the sizes of the blocks now stored.
C20_CleanRecreate ==
    (access /\ lastf.op = "xWrite") =>
        _get_total_size(fsize) = StoredBytes(blocks)

\* C14: after deserialize_iter(P, source), serialize_iter(P) yields the
\* bytes of the source, however the source was cut into chunks and whatever
\* P held before, and xRead(amount, offset) returns the source's bytes at
\* that range.
C14_RoundTrip ==
    lastf.op = "deserialize_iter" =>
        /\ Flatten(serialize_iter(blocks, -1)) = lastf.data
        /\ \A amount \in 0..(MaxFile + 1) : \A offset \in 0..(MaxFile + 1) :
              ReadBytes(block_size, blocks, amount, offset) =
                  RefRead(lastf.data, amount, offset)

\* C15: serialize_iter yields the data of every stored block exactly once,
\* in ascending block order across the pages of the Query, and no empty
\* chunk; its chunks joined are the serialized file.
C15_SerializeChunks ==
    LET chunks == serialize_iter(blocks, -1)
        order == Ascending(DOMAIN blocks)
    IN  /\ Len(chunks) = Cardinality(DOMAIN blocks)
        /\ \A i \in DOMAIN chunks :
              /\ chunks[i] = blocks[order[i]]["data"]
              /\ chunks[i] # <<>>
        /\ \A i \in DOMAIN order : \A j \in DOMAIN order :
              i < j => order[i] < order[j]
        /\ Flatten(chunks) = Serialized(blocks)
        /\ lastf.op = "serialize_iter" =>
              (lastf.n = Len(chunks) /\ lastf.bytes = Flatten(chunks))

\* C15 witness: a serialize_iter has yielded more chunks than one page of
\* the Query holds.
C15_Witness ==
    /\ lastf.op = "serialize_iter"
    /\ lastf.n > PageSize
    /\ Len(lastf.bytes) >= lastf.n

(***************************************************************************)
(* Busy calls and the two requests of xLock(RESERVED).                      *)
(***************************************************************************)
\* the step is an xLock call that raised Busy at its SHARED or PENDING request
BusyAtFirstRequest(h) ==
    /\ last' # last
    /\ last'.op = "xLock" /\ last'.h = h /\ last'.res = "busy"
    /\ \/ last'.level = SQLITE_LOCK_SHARED
       \/ attained[h] # SQLITE_LOCK_PENDING

\* C27: when xLock raises Busy at the SHARED request or at the PENDING
\* request, the item LK/P and the caller's attained level are as they were
\* before the call.
C27_BusyChangesNothing ==
    [][\A h \in Handles :
          BusyAtFirstRequest(h) => lk' = lk /\ attained'[h] = attained[h]]_vars

\* a Busy at the PENDING request of a reader, while another handle owns LK/P
C27_Witness ==
    /\ last.op = "xLock" /\ last.res = "busy"
    /\ last.level = SQLITE_LOCK_RESERVED
    /\ attained[last.h] = SQLITE_LOCK_SHARED
    /\ Has(lk, "owner") /\ lk["owner"] # last.h

\* C28: xLock(RESERVED) never leaves the handle at PENDING: the request
\* after a successful PENDING request succeeds, so the call ends with Busy
\* and the attained level unchanged, or with attained = RESERVED, the item's
\* level RESERVED and its owner the caller.
C28_ReservedNeverPending ==
    [][\A h \in Handles :
          /\ (last'.op = "xLockUpgrade" /\ last'.h = h /\ pc[h] = "upgrade"
                 /\ pc'[h] = "idle" /\ last'.level = SQLITE_LOCK_RESERVED)
             => /\ last'.res = "ok"
                /\ attained'[h] = SQLITE_LOCK_RESERVED
                /\ LevelIs(lk', SQLITE_LOCK_RESERVED)
                /\ lk'["owner"] = h
          /\ (last' # last /\ last'.op = "xLock" /\ last'.h = h
                 /\ last'.level = SQLITE_LOCK_RESERVED /\ pc'[h] = "idle")
             => \/ last'.res = "busy" /\ attained'[h] = attained[h]
                \/ /\ last'.res = "ok"
                   /\ attained'[h] = SQLITE_LOCK_RESERVED
                   /\ LevelIs(lk', SQLITE_LOCK_RESERVED)
                   /\ lk'["owner"] = h]_vars

\* the second request of xLock(RESERVED) went through with readers present
C28_Witness ==
    /\ last.op = "xLockUpgrade" /\ last.res = "ok"
    /\ last.level = SQLITE_LOCK_RESERVED
    /\ attained[last.h] = SQLITE_LOCK_RESERVED
    /\ Count(lk) >= 2

\* C29: in every state of LK/P the level is present exactly when the owner
\* is, and a level that is present is RESERVED, PENDING or EXCLUSIVE.
C29_LevelWithOwner ==
    /\ Has(lk, "level") <=> Has(lk, "owner")
    /\ Has(lk, "level") =>
          lk["level"] \in {SQLITE_LOCK_RESERVED, SQLITE_LOCK_PENDING,
                           SQLITE_LOCK_EXCLUSIVE}

\* a writer released to SHARED: level and owner are gone, the count is left
C29_Witness ==
    /\ last.op = "xUnlock" /\ last.res = "ok"
    /\ last.level = SQLITE_LOCK_SHARED
    /\ ~Has(lk, "level") /\ ~Has(lk, "owner") /\ Count(lk) >= 1

(***************************************************************************)
(* The ACCESS marker and the shape of the stored blocks.                    *)
(***************************************************************************)
\* C21: a path that has at least one block BL/P has its marker ACCESS/P,
\* after every sequence of xOpen, xWrite, xTruncate, deserialize_iter and
\* xDelete.
C21_BlocksHaveMarker ==
    DOMAIN blocks # {} => AccessResult(access, SQLITE_ACCESS_EXISTS)

\* C23: after every sequence of xWrite and xTruncate only the block with
\* the highest number may hold fewer than block_size bytes.
C23_OnlyLastShort ==
    \A n \in DOMAIN blocks :
        (\E m \in DOMAIN blocks : m > n) =>
            Len(blocks[n]["data"]) = block_size

\* C22: after every xWrite, xTruncate and deserialize_iter each stored block
\* holds between 1 and block_size bytes and its size attribute is the length
\* of its data.
C22_BlockShape ==
    \A n \in DOMAIN blocks :
        /\ Len(blocks[n]["data"]) >= 1
        /\ Len(blocks[n]["data"]) <= block_size
        /\ blocks[n]["size"] = Len(blocks[n]["data"])

\* xTruncate has cut a block short and left a full block before it
C22_Witness ==
    /\ lastf.op = "xTruncate"
    /\ \E n \in DOMAIN blocks :
          /\ Len(blocks[n]["data"]) < block_size
          /\ \E m \in DOMAIN blocks :
                m < n /\ Len(blocks[m]["data"]) = block_size

(***************************************************************************)
(* The write after the lock page, and reads of a contiguous file.           *)
(***************************************************************************)
\* C24: on a file written contiguously from offset 0 up to lock_page_offset,
\* xWrite(data, lock_page_offset + len(data)) leaves every block from
\* lock_page_offset \div block_size to
\* (lock_page_offset + len(data)) \div block_size - 1 with exactly block_size
\* bytes, zero-padded, so that in the serialized stream the data starts at
\* byte lock_page_offset + len(data) and xFileSize returns
\* lock_page_offset + 2 * len(data), for block sizes below, equal to and
\* above the page size.
C24_LockPageCrossing ==
    [][( /\ WellFormed(block_size, blocks)
         /\ Len(Serialized(blocks)) = lock_page_offset
         /\ _get_total_size(fsize) = lock_page_offset
         /\ lastf'.op = "xWrite"
         /\ lastf'.offset = lock_page_offset + Len(lastf'.data)
         /\ <<blocks', lastf'>> # <<blocks, lastf>> )
       => LET len == Len(lastf'.data)
              stream == Serialized(blocks')
          IN  /\ \A n \in (lock_page_offset \div block_size)..
                            (((lock_page_offset + len) \div block_size) - 1) :
                    /\ n \in DOMAIN blocks'
                    /\ Len(blocks'[n]["data"]) = block_size
              /\ Slice(stream, 0, lock_page_offset) = Serialized(blocks)
              /\ Slice(stream, lock_page_offset, lock_page_offset + len)
                     = Zeros(len)
              /\ Slice(stream, lock_page_offset + len,
                       lock_page_offset + 2 * len) = lastf'.data
              /\ Len(stream) = lock_page_offset + 2 * len
              /\ _get_total_size(fsize') = lock_page_offset + 2 * len
      ]_vars

\* the page after the lock page was written with blocks shorter than the page
C24_Witness ==
    /\ lastf.op = "xWrite" /\ Len(lastf.data) = 2
    /\ lastf.offset = lock_page_offset + 2
    /\ block_size = 1
    /\ DOMAIN blocks = 0..(lock_page_offset + 3)
    /\ blocks[lock_page_offset]["data"] = <<0>>
    /\ blocks[lock_page_offset + 1]["data"] = <<0>>
    /\ _get_total_size(fsize) = lock_page_offset + 4

\* C25: xRead does not fail on a missing block and never returns more than
\* amount bytes; on a file stored as contiguous blocks of total length L,
\* xRead(amount, offset) returns exactly max(0, min(amount, L - offset))
\* bytes, the bytes of the file from offset on.
C25_ReadLength ==
    \A amount \in 0..(MaxFile \div 2) : \A offset \in 0..(MaxFile + 1) :
        LET r == ReadBytes(block_size, blocks, amount, offset)
            f == Serialized(blocks)
        IN  /\ Len(r) <= amount
            /\ WellFormed(block_size, blocks) =>
                  /\ Len(r) = Max(0, Min(amount, Len(f) - offset))
                  /\ r = RefRead(f, amount, offset)

\* a read returned two bytes of a file of several blocks ending in a short one
C25_Witness ==
    /\ lastf.op = "xRead" /\ Len(lastf.bytes) = 2
    /\ WellFormed(block_size, blocks)
    /\ Cardinality(DOMAIN blocks) >= 2
    /\ \E n \in DOMAIN blocks : Len(blocks[n]["data"]) < block_size

(***************************************************************************)
(* The calls that change nothing.                                           *)
(***************************************************************************)
\* the step is one of the ten calls
QuietCall ==
    \/ /\ last' # last
       /\ last'.op \in {"xSync", "xClose", "xFileControl", "xSectorSize",
                        "xCheckReservedLock"}
    \/ /\ lastf' # lastf
       /\ lastf'.op \in {"xRead", "xFileSize", "xAccess", "xFullPathname",
                         "serialize_iter"}

\* C26: xSync, xClose, xFileControl and xSectorSize are no-ops and xRead,
\* xFileSize, xCheckReservedLock, xAccess, xFullPathname and serialize_iter
\* are read-only: none of them creates, changes or deletes an item of the
\* table, and xClose on a handle that holds a lock leaves LK/P as it was.
C26_NoWrites ==
    [][QuietCall => UNCHANGED <<lk, blocks, fsize, access>>]_vars

\* xClose on a handle that owns the RESERVED lock: LK/P still records it
C26_Witness ==
    /\ last.op = "xClose"
    /\ held[last.h] = SQLITE_LOCK_RESERVED
    /\ LevelIs(lk, SQLITE_LOCK_RESERVED) /\ lk["owner"] = last.h
    /\ Count(lk) >= 1

====
